---- MODULE Spec2Model ----
(***************************************************************************)
(* A model of osmnx/plot.py: the static (matplotlib) and interactive       *)
(* (folium) rendering of a street-network multigraph and of a route.       *)
(*                                                                         *)
(* Every function of plot.py is one action.  The functions keep no state   *)
(* between calls: the state is the data at hand (a graph G, or a           *)
(* GeoDataFrame gdf of place boundaries), which no call changes, the last  *)
(* call (its name and arguments) and what it produced (a figure, a web     *)
(* map, a colour list or an exception).                                    *)
(* Numbers are exact rationals <<numerator, denominator>>.                 *)
(***************************************************************************)
EXTENDS Integers, Sequences, FiniteSets, TLC

VARIABLES G, gdf, call, result

vars == <<G, gdf, call, result>>

(***************************************************************************)
(* Bounds of the model.                                                    *)
(***************************************************************************)
\* the largest number of edges of a graph passed to a call
MaxEdges == 2
\* the largest number of folium calls made on one map canvas
MaxCalls == 2
\* the largest number of quantile bins asked of get_edge_colors_by_attr
MaxBins == 3
\* the largest attribute value binned by get_edge_colors_by_attr
MaxAttr == 3

(***************************************************************************)
(* Python values.  An optional value is <<>> (None) or <<x>>.              *)
(***************************************************************************)
None == <<>>

Some(x) == <<x>>

IsNone(o) == o = <<>>

Val(o) == o[1]

Abs(i) == IF i < 0 THEN -i ELSE i

RECURSIVE GCD(_, _)
GCD(a, b) == IF b = 0 THEN a ELSE GCD(b, a % b)

\* the rational n/d (d # 0) in lowest terms with a positive denominator
Rat(n, d) ==
    LET s == IF d < 0 THEN -1 ELSE 1
        g == GCD(Abs(n), Abs(d))
    IN  <<(s * n) \div g, (s * d) \div g>>

R(i) == <<i, 1>>

RatAdd(a, b) == Rat(a[1] * b[2] + b[1] * a[2], a[2] * b[2])

RatSub(a, b) == Rat(a[1] * b[2] - b[1] * a[2], a[2] * b[2])

RatMul(a, b) == Rat(a[1] * b[1], a[2] * b[2])

\* a / b, for b # 0
RatDiv(a, b) == Rat(a[1] * b[2], a[2] * b[1])

RatIsZero(a) == a[1] = 0

RatLess(a, b) == a[1] * b[2] < b[1] * a[2]

\* the sequences over S of length 1..n
SeqsUpTo(S, n) == UNION {[1..k -> S] : k \in 1..n}

(***************************************************************************)
(* The graph: a networkx MultiDiGraph.  g.node maps a node to its x and y  *)
(* (rationals); g.edges is the list g.edges(keys=True, data=True) yields,  *)
(* in its order: parallel edges u->v are adjacent and carry the keys 0, 1, *)
(* ... in the order g.edge[u][v] holds them.                               *)
(***************************************************************************)
Nodes == 0..3

\* the nodes of the graph, on the unit square: n0 (0,0), n1 (0,1), n2 (1,1), n3 (1,0)
NodeXY ==
    [n \in Nodes |->
        [x |-> R(IF n \in {2, 3} THEN 1 ELSE 0),
         y |-> R(IF n \in {1, 2} THEN 1 ELSE 0)]]

\* the node pairs that may carry edges
EdgePairs == {<<0, 1>>, <<1, 2>>}

\* the values of an edge's 'length'
Lengths == {1, 2}

\* an OSM 'highway' value: a string, or a list of strings
HwScalar(s) == [list |-> FALSE, val |-> s, vals |-> <<>>]

HwList(ss) == [list |-> TRUE, val |-> "", vals |-> ss]

Highways == {HwScalar("motorway"), HwScalar("residential"),
             HwList(<<"service", "residential">>)}

\* the geometry of the key-th edge u->v that has one: a LineString from u to
\* v by way of a point outside the square of the nodes, its own for each key
Curve(u, v, key) ==
    <<<<NodeXY[u].x, NodeXY[u].y>>, <<R(2 + key), R(2)>>,
      <<NodeXY[v].x, NodeXY[v].y>>>>

\* an edge before its key is known
ProtoEdges(lengths, geoms, highways) ==
    [pair : EdgePairs, length : lengths, hasgeom : geoms, highway : highways]

\* the edges of one node pair are adjacent
Grouped(ps) ==
    \A i, j, k \in DOMAIN ps :
        (i < j /\ j < k /\ ps[i].pair = ps[k].pair) => ps[j].pair = ps[i].pair

KeyOf(ps, i) == Cardinality({j \in 1..(i - 1) : ps[j].pair = ps[i].pair})

MkGraph(ps) ==
    [node  |-> NodeXY,
     edges |-> [i \in DOMAIN ps |->
                  [u        |-> ps[i].pair[1],
                   v        |-> ps[i].pair[2],
                   key      |-> KeyOf(ps, i),
                   length   |-> ps[i].length,
                   highway  |-> ps[i].highway,
                   geometry |-> IF ps[i].hasgeom
                                THEN Some(Curve(ps[i].pair[1], ps[i].pair[2], KeyOf(ps, i)))
                                ELSE None]]]

GraphsOf(protos) == {MkGraph(ps) : ps \in {qs \in SeqsUpTo(protos, MaxEdges) : Grouped(qs)}}

\* the graphs the rendering calls are given: lengths and geometries vary
Graphs == GraphsOf(ProtoEdges(Lengths, BOOLEAN, {HwScalar("residential")}))

\* the graphs plot_figure_ground downloads and projects: street types vary
StreetGraphs == GraphsOf(ProtoEdges({1}, {FALSE}, Highways))

\* the graphs whose attribute is binned: parallel edges, the attribute varies
AttrGraphs ==
    {MkGraph(ps) : ps \in SeqsUpTo([pair : {<<0, 1>>}, length : 1..MaxAttr,
                                    hasgeom : {FALSE},
                                    highway : {HwScalar("residential")}], MaxEdges + 1)}

\* g.edge[u][v].values(): the data of the parallel edges u->v, in key order
ParallelEdges(g, u, v) == SelectSeq(g.edges, LAMBDA e : e.u = u /\ e.v = v)


(***************************************************************************)
(* save_load.graph_to_gdfs(g, nodes=False, fill_edge_geometry=True), the   *)
(* collaborator of the spec's section 6: one row per edge, in edge order,  *)
(* with the columns u, v, key and the edge's attributes; an edge without a *)
(* geometry gets the straight LineString between its two nodes.            *)
(***************************************************************************)
StraightLine(g, u, v) ==
    <<<<g.node[u].x, g.node[u].y>>, <<g.node[v].x, g.node[v].y>>>>

graph_to_gdfs(g) ==
    [i \in DOMAIN g.edges |->
        [u        |-> g.edges[i].u,
         v        |-> g.edges[i].v,
         key      |-> g.edges[i].key,
         length   |-> g.edges[i].length,
         highway  |-> g.edges[i].highway,
         geometry |-> IF IsNone(g.edges[i].geometry)
                      THEN StraightLine(g, g.edges[i].u, g.edges[i].v)
                      ELSE Val(g.edges[i].geometry)]]

RatMinOf(S) == CHOOSE r \in S : \A t \in S : ~RatLess(t, r)

RatMaxOf(S) == CHOOSE r \in S : \A t \in S : ~RatLess(r, t)

\* GeoDataFrame.total_bounds: (minx, miny, maxx, maxy) of the rows' geometries
total_bounds(rows) ==
    LET pts == UNION {{rows[i].geometry[j] : j \in DOMAIN rows[i].geometry} : i \in DOMAIN rows}
        xs  == {p[1] : p \in pts}
        ys  == {p[2] : p \in pts}
    IN  <<RatMinOf(xs), RatMinOf(ys), RatMaxOf(xs), RatMaxOf(ys)>>

(***************************************************************************)
(* The polyline of an edge (plot_graph, plot_graph_route): the geometry's  *)
(* coordinates, taken apart by .xy and put together by zip, or the segment *)
(* from node u to node v.                                                  *)
(***************************************************************************)
\* LineString.xy: the x's and the y's of the coordinates
GeomXY(geom) ==
    [xs |-> [i \in DOMAIN geom |-> geom[i][1]],
     ys |-> [i \in DOMAIN geom |-> geom[i][2]]]

\* list(zip(xs, ys))
Zip(xs, ys) ==
    [i \in 1..(IF Len(xs) < Len(ys) THEN Len(xs) ELSE Len(ys)) |-> <<xs[i], ys[i]>>]

\* EdgeLine without the test of use_geom
EdgeLineAnyGeom(g, u, v, data, use_geom) ==
    IF ~IsNone(data.geometry)
    THEN Zip(GeomXY(Val(data.geometry)).xs, GeomXY(Val(data.geometry)).ys)
    ELSE <<<<g.node[u].x, g.node[u].y>>, <<g.node[v].x, g.node[v].y>>>>

EdgeLine(g, u, v, data, use_geom) ==
    IF ~IsNone(data.geometry) /\ use_geom
    THEN Zip(GeomXY(Val(data.geometry)).xs, GeomXY(Val(data.geometry)).ys)
    ELSE <<<<g.node[u].x, g.node[u].y>>, <<g.node[v].x, g.node[v].y>>>>

\* plot_graph's lines: one per edge (u, v, key), in edge order
GraphLines(g, use_geom) ==
    [i \in DOMAIN g.edges |->
        EdgeLine(g, g.edges[i].u, g.edges[i].v, g.edges[i], use_geom)]

(***************************************************************************)
(* The figure and its axis.  layers are the artists added to the axis, in  *)
(* the order added; events are the calls made on the figure, the axis and  *)
(* pyplot, in order; saved and shown hold what the figure was like when it *)
(* was written to disk and when it was displayed.                          *)
(***************************************************************************)
EdgeZorder == 2

RouteZorder == 3

MarkerZorder == 4

Layer(kind, lines, xs, ys, color, widths, zorder) ==
    [kind |-> kind, lines |-> lines, xs |-> xs, ys |-> ys, color |-> color,
     widths |-> widths, zorder |-> zorder]

\* plt.subplots(figsize=(fig_width, fig_height)): an empty axis, aspect 'auto'
NewFigure(fig_width, fig_height) ==
    [figsize  |-> <<fig_width, fig_height>>,
     layers   |-> <<>>,
     xlim     |-> None,
     ylim     |-> None,
     aspect   |-> "auto",
     axis     |-> "on",
     position |-> "subplot",
     texts    |-> <<>>,
     events   |-> <<"subplots">>,
     saved    |-> None,
     shown    |-> None,
     closed   |-> FALSE]

\* the figure before any call
NoFigure == [NewFigure(R(0), R(0)) EXCEPT !.events = <<>>]

\* what an image, or the window, shows of the figure at this moment
Snapshot(fig) ==
    [layers |-> fig.layers, xlim |-> fig.xlim, ylim |-> fig.ylim,
     aspect |-> fig.aspect, axis |-> fig.axis, position |-> fig.position]

\* the web map before any call: no canvas
NoMap == [layers |-> <<>>, location |-> None, fitted |-> None, calls |-> 0]

\* what a call comes to: the value it returns, or the exception it raises.  fig
\* is the figure as the call left it, fmap the map canvas as the call left it
Outcome(kind, err, fig, fmap, colors) ==
    [kind |-> kind, err |-> err, fig |-> fig, fmap |-> fmap, colors |-> colors]

Returned(fig) == Outcome("fig", "", fig, NoMap, <<>>)

Raised(err, fig) == Outcome("error", err, fig, NoMap, <<>>)

\* save_and_show(fig, ax, save, show, close, filename, file_format, dpi, axis_off)
save_and_show(fig, save, show, close, file_format, axis_off) ==
    LET prepared ==
            IF save /\ file_format = "svg"
            THEN [fig EXCEPT !.axis = "off", !.position = "full",
                             !.events = @ \o <<"axis_off", "set_position">>]
            ELSE fig
        saved ==
            IF save
            THEN [prepared EXCEPT
                    !.saved = Some([format |-> file_format,
                                    bbox_inches |-> IF file_format = "svg" THEN "0"
                                                    ELSE IF axis_off THEN "axis"
                                                    ELSE "tight",
                                    image |-> Snapshot(prepared)]),
                    !.events = @ \o <<"savefig">>]
            ELSE prepared
    IN  IF show
        THEN [saved EXCEPT !.shown = Some(Snapshot(saved)), !.events = @ \o <<"show">>]
        ELSE IF close
        THEN [saved EXCEPT !.closed = TRUE, !.events = @ \o <<"close">>]
        ELSE saved


(***************************************************************************)
(* plot_graph(g, ...), with a the record of its keyword arguments.         *)
(***************************************************************************)
\* the arguments' default values
PlotGraphDefaults ==
    [bbox |-> None, fig_height |-> R(6), fig_width |-> None, margin |-> Rat(1, 50),
     axis_off |-> TRUE, show |-> TRUE, save |-> FALSE, close |-> TRUE,
     file_format |-> "png", annotate |-> FALSE, node_color |-> "#66ccff",
     node_zorder |-> 1, edge_color |-> "#999999", edge_linewidth |-> <<R(1)>>,
     use_geom |-> TRUE]

\* north, south, east, west: the bbox argument, or the extent of the edges
Extent(g, bbox) ==
    IF IsNone(bbox)
    THEN LET tb == total_bounds(graph_to_gdfs(g))
         IN  [north |-> tb[4], south |-> tb[2], east |-> tb[3], west |-> tb[1]]
    ELSE [north |-> Val(bbox)[1], south |-> Val(bbox)[2],
          east |-> Val(bbox)[3], west |-> Val(bbox)[4]]

\* FigWidth with the height multiplied by the aspect ratio
FigWidthTimesRatio(box, fig_height, fig_width) ==
    IF IsNone(fig_width)
    THEN RatMul(fig_height, RatDiv(RatSub(box.north, box.south), RatSub(box.east, box.west)))
    ELSE Val(fig_width)

\* fig_width, where the division by the aspect ratio is defined
FigWidth(box, fig_height, fig_width) ==
    IF IsNone(fig_width)
    THEN RatDiv(fig_height, RatDiv(RatSub(box.north, box.south), RatSub(box.east, box.west)))
    ELSE Val(fig_width)

\* ViewLimits with the two margins exchanged
ViewLimitsSwapped(box, margin) ==
    LET margin_ns == RatMul(RatSub(box.north, box.south), margin)
        margin_ew == RatMul(RatSub(box.east, box.west), margin)
    IN  [ylim |-> <<RatSub(box.south, margin_ew), RatAdd(box.north, margin_ew)>>,
         xlim |-> <<RatSub(box.west, margin_ns), RatAdd(box.east, margin_ns)>>]

\* ax.set_ylim, ax.set_xlim: the extent and its margins
ViewLimits(box, margin) ==
    LET margin_ns == RatMul(RatSub(box.north, box.south), margin)
        margin_ew == RatMul(RatSub(box.east, box.west), margin)
    IN  [ylim |-> <<RatSub(box.south, margin_ns), RatAdd(box.north, margin_ns)>>,
         xlim |-> <<RatSub(box.west, margin_ew), RatAdd(box.east, margin_ew)>>]

\* the LineCollection of the graph's edges
EdgeLayer(g, a) ==
    Layer("edges", GraphLines(g, a.use_geom), <<>>, <<>>, a.edge_color,
          a.edge_linewidth, EdgeZorder)

\* the scatter of the graph's nodes, in the order of g.node
NodeLayer(g, a) ==
    Layer("nodes", <<>>,
          [i \in 1..Cardinality(DOMAIN g.node) |-> g.node[i - 1].x],
          [i \in 1..Cardinality(DOMAIN g.node) |-> g.node[i - 1].y],
          a.node_color, <<>>, a.node_zorder)

\* the figure with its edges, nodes, limits, axis and annotations: lines 255-303
DrawGraph(g, a, box, fig_width) ==
    LET f0 == NewFigure(fig_width, a.fig_height)
        f1 == [f0 EXCEPT !.layers = @ \o <<EdgeLayer(g, a), NodeLayer(g, a)>>,
                         !.events = @ \o <<"add_collection", "scatter">>]
        f2 == [f1 EXCEPT !.ylim = Some(ViewLimits(box, a.margin).ylim),
                         !.xlim = Some(ViewLimits(box, a.margin).xlim),
                         !.events = @ \o <<"set_ylim", "set_xlim">>]
        f3 == IF a.axis_off
              THEN [f2 EXCEPT !.axis = "off", !.events = @ \o <<"axis_off", "draw">>]
              ELSE f2
    IN  IF a.annotate
        THEN [f3 EXCEPT !.texts = [n \in 1..Cardinality(DOMAIN g.node) |->
                                     [text |-> n - 1, xy |-> <<g.node[n - 1].x, g.node[n - 1].y>>]],
                        !.events = @ \o <<"annotate">>]
        ELSE f3

\* The aspect ratio (north-south)/(east-west) is computed whether or not a
\* fig_width is passed.  A bbox argument holds Python numbers, whose division
\* by zero raises; total_bounds holds numpy floats, whose division by zero is
\* inf or nan, and a figure of a width that is zero or not finite is refused.
plot_graph(g, a) ==
    LET box == Extent(g, a.bbox)
        dy  == RatSub(box.north, box.south)
        dx  == RatSub(box.east, box.west)
    IN  IF ~IsNone(a.bbox) /\ (RatIsZero(dx) \/ (RatIsZero(dy) /\ IsNone(a.fig_width)))
        THEN Raised("ZeroDivisionError", NoFigure)
        ELSE IF IsNone(a.fig_width) /\ (RatIsZero(dx) \/ RatIsZero(dy))
        THEN Raised("ValueError", NoFigure)
        ELSE Returned(save_and_show(DrawGraph(g, a, box, FigWidth(box, a.fig_height, a.fig_width)),
                                    a.save, a.show, a.close, a.file_format, a.axis_off))


(***************************************************************************)
(* plot_graph_route(g, route, ...), with a the record of its keyword       *)
(* arguments.                                                              *)
(***************************************************************************)
PlotGraphRouteDefaults ==
    [bbox |-> None, fig_height |-> R(6), fig_width |-> None, margin |-> Rat(1, 50),
     axis_off |-> TRUE, show |-> TRUE, save |-> FALSE, close |-> TRUE,
     file_format |-> "png", annotate |-> FALSE, node_color |-> "#999999",
     node_zorder |-> 1, edge_color |-> "#999999", edge_linewidth |-> <<R(1)>>,
     use_geom |-> TRUE, origin_point |-> None, destination_point |-> None,
     route_color |-> "r", route_linewidth |-> <<R(4)>>,
     orig_dest_node_color |-> "r", orig_dest_point_color |-> "b"]

\* zip(route[:-1], route[1:])
RoutePairs(route) == [i \in 1..(Len(route) - 1) |-> <<route[i], route[i + 1]>>]

RECURSIVE MinByLengthLast(_, _)
\* MinByLength with <= for <: of the edges of minimum length, the last
MinByLengthLast(best, rest) ==
    IF rest = <<>> THEN best
    ELSE MinByLengthLast(IF Head(rest).length <= best.length THEN Head(rest) ELSE best,
                         Tail(rest))

RECURSIVE MinByLength(_, _)
\* min(rest, key=lambda x: x['length']) started from best: a later element
\* replaces best only if its length is smaller
MinByLength(best, rest) ==
    IF rest = <<>> THEN best
    ELSE MinByLength(IF Head(rest).length < best.length THEN Head(rest) ELSE best,
                     Tail(rest))

\* the edge of a route step: the shortest of the parallel edges u->v
ShortestEdge(g, u, v) ==
    MinByLength(Head(ParallelEdges(g, u, v)), Tail(ParallelEdges(g, u, v)))

\* the scatter of the origin and the destination: lines 399-415
MarkerLayer(g, route, a) ==
    LET origin_node      == route[1]
        destination_node == route[Len(route)]
    IN  IF IsNone(a.origin_point) \/ IsNone(a.destination_point)
        THEN Layer("markers", <<>>,
                   <<g.node[origin_node].x, g.node[destination_node].x>>,
                   <<g.node[origin_node].y, g.node[destination_node].y>>,
                   a.orig_dest_node_color, <<>>, MarkerZorder)
        ELSE Layer("markers", <<>>,
                   <<Val(a.origin_point)[2], Val(a.destination_point)[2]>>,
                   <<Val(a.origin_point)[1], Val(a.destination_point)[1]>>,
                   a.orig_dest_point_color, <<>>, MarkerZorder)

\* the lines of the route: one per consecutive pair, in route order
RouteLines(g, route, use_geom) ==
    [i \in DOMAIN RoutePairs(route) |->
        EdgeLine(g, RoutePairs(route)[i][1], RoutePairs(route)[i][2],
                 ShortestEdge(g, RoutePairs(route)[i][1], RoutePairs(route)[i][2]), use_geom)]

\* RouteLayer at the z-order of the edges
RouteLayerAmongEdges(g, route, a) ==
    Layer("route", RouteLines(g, route, a.use_geom), <<>>, <<>>, a.route_color,
          a.route_linewidth, EdgeZorder)

\* the LineCollection of the route
RouteLayer(g, route, a) ==
    Layer("route", RouteLines(g, route, a.use_geom), <<>>, <<>>, a.route_color,
          a.route_linewidth, RouteZorder)

\* g.edge[u][v] raises KeyError for a pair without an edge
MissingStep(g, route) ==
    \E i \in DOMAIN RoutePairs(route) :
        ParallelEdges(g, RoutePairs(route)[i][1], RoutePairs(route)[i][2]) = <<>>

\* plot_graph_route with show, save and close handed on to the inner plot_graph
plot_graph_route_handing_on(g, route, a) ==
    LET bg == plot_graph(g, [b \in DOMAIN PlotGraphDefaults |-> a[b]])
    IN  IF bg.kind = "error" THEN bg
        ELSE LET f1 == [bg.fig EXCEPT !.layers = @ \o <<MarkerLayer(g, route, a)>>,
                                      !.events = @ \o <<"scatter">>]
             IN  IF MissingStep(g, route) THEN Raised("KeyError", f1)
                 ELSE Returned(save_and_show(
                          [f1 EXCEPT !.layers = @ \o <<RouteLayer(g, route, a)>>,
                                     !.events = @ \o <<"add_collection">>],
                          a.save, a.show, a.close, a.file_format, a.axis_off))

plot_graph_route(g, route, a) ==
    LET bg == plot_graph(g, [b \in DOMAIN PlotGraphDefaults |->
                               IF b \in {"show", "save", "close"} THEN FALSE
                               ELSE IF b = "file_format" THEN PlotGraphDefaults.file_format
                               ELSE a[b]])
    IN  IF bg.kind = "error" THEN bg
        ELSE LET f1 == [bg.fig EXCEPT !.layers = @ \o <<MarkerLayer(g, route, a)>>,
                                      !.events = @ \o <<"scatter">>]
             IN  IF MissingStep(g, route) THEN Raised("KeyError", f1)
                 ELSE Returned(save_and_show(
                          [f1 EXCEPT !.layers = @ \o <<RouteLayer(g, route, a)>>,
                                     !.events = @ \o <<"add_collection">>],
                          a.save, a.show, a.close, a.file_format, a.axis_off))

(***************************************************************************)
(* get_edge_colors_by_attr(G, attr, num_bins, cmap, start, stop), with     *)
(* attr = 'length'.  pandas.qcut cuts at the quantiles 0, 1/q, ..., 1 of   *)
(* the values (linear interpolation between the two nearest ranks), raises *)
(* ValueError when two of these bin edges are equal (unless there are only *)
(* two edges), and files a value under the first bin whose right edge is   *)
(* not below it.                                                           *)
(***************************************************************************)
\* [data[attr] for u, v, key, data in G.edges(keys=True, data=True)]
AttrValues(g) == [i \in DOMAIN g.edges |-> g.edges[i].length]

RECURSIVE Insert(_, _)
Insert(x, s) ==
    IF s = <<>> THEN <<x>>
    ELSE IF x <= Head(s) THEN <<x>> \o s
    ELSE <<Head(s)>> \o Insert(x, Tail(s))

RECURSIVE Sorted(_)
Sorted(s) == IF s = <<>> THEN <<>> ELSE Insert(Head(s), Sorted(Tail(s)))

\* the i/q-quantile of the values, i in 0..q
Quantile(values, i, q) ==
    LET srt == Sorted(values)
        pos == i * (Len(values) - 1)
        lo  == pos \div q
        rem == pos % q
    IN  IF rem = 0 THEN R(srt[lo + 1])
        ELSE RatAdd(R(srt[lo + 1]), RatMul(Rat(rem, q), R(srt[lo + 2] - srt[lo + 1])))

\* the q + 1 bin edges
QuantileBins(values, q) == [i \in 1..(q + 1) |-> Quantile(values, i - 1, q)]

BinsUnique(bins) == \A i, j \in DOMAIN bins : i # j => bins[i] # bins[j]

\* bins.searchsorted(x, side='left'), and the lowest edge included: the label
QcutLabel(bins, x) ==
    LET ids == Cardinality({j \in DOMAIN bins : RatLess(bins[j], R(x))})
    IN  (IF R(x) = bins[1] THEN 1 ELSE ids) - 1

\* pd.qcut(x=values, q=q, labels=range(q)) where it does not raise
Qcut(values, q) == [i \in DOMAIN values |-> QcutLabel(QuantileBins(values, q), values[i])]

QcutRaises(values, q) ==
    ~BinsUnique(QuantileBins(values, q)) /\ Len(QuantileBins(values, q)) # 2

\* np.linspace(start, stop, num)[i], i from 0
Linspace(start, stop, num, i) ==
    IF num = 1 THEN start
    ELSE RatAdd(start, RatMul(R(i), RatDiv(RatSub(stop, start), R(num - 1))))

\* cm.get_cmap(cmap)(x): the colour of the scale at x
CmapColor(cmap, x) == [cmap |-> cmap, at |-> x]

ColorList(a) ==
    [i \in 1..a.num_bins |-> CmapColor(a.cmap, Linspace(a.start, a.stop, a.num_bins, i - 1))]

get_edge_colors_by_attr(g, a) ==
    IF QcutRaises(AttrValues(g), a.num_bins)
    THEN Raised("ValueError", NoFigure)
    ELSE Outcome("colors", "", NoFigure, NoMap,
                 [i \in DOMAIN g.edges |->
                    ColorList(a)[Qcut(AttrValues(g), a.num_bins)[i] + 1]])

(***************************************************************************)
(* plot_shape(frame, ...).  frame.kinds are the types of the geometries, in    *)
(* order; frame.bounds is unary_union.bounds:   west, south, east, north.  *)
(***************************************************************************)
PlotShapeDefaults == [figsize |-> <<R(6), R(6)>>, margin |-> Rat(1, 50), axis_off |-> TRUE]

\* the patches of the geometries up to the first that is no (Multi)Polygon
\* (one patch stands for the patches of a MultiPolygon's polygons)
RECURSIVE ShapePatches(_)
ShapePatches(kinds) ==
    IF kinds = <<>> \/ Head(kinds) \notin {"Polygon", "MultiPolygon"} THEN <<>>
    ELSE <<Layer("patch", <<>>, <<>>, <<>>, "#cbe0f0", <<R(1)>>, 1)>>
         \o ShapePatches(Tail(kinds))

\* plot_shape without ax.set_aspect
plot_shape_auto_aspect(frame, a) ==
    LET f0  == NewFigure(a.figsize[1], a.figsize[2])
        f1  == [f0 EXCEPT !.layers = ShapePatches(frame.kinds),
                          !.events = @ \o [i \in 1..Len(ShapePatches(frame.kinds)) |-> "add_patch"]]
        box == [west |-> frame.bounds[1], south |-> frame.bounds[2],
                east |-> frame.bounds[3], north |-> frame.bounds[4]]
        margin_ns == RatMul(RatSub(box.north, box.south), a.margin)
        margin_ew == RatMul(RatSub(box.east, box.west), a.margin)
        f2  == [f1 EXCEPT !.ylim = Some(<<RatSub(box.south, margin_ns), RatAdd(box.north, margin_ns)>>),
                          !.xlim = Some(<<RatSub(box.west, margin_ew), RatAdd(box.east, margin_ew)>>),
                          !.events = @ \o <<"set_ylim", "set_xlim">>]
        f3  == IF a.axis_off
               THEN [f2 EXCEPT !.axis = "off", !.events = @ \o <<"axis_off">>]
               ELSE f2
    IN  IF \E i \in DOMAIN frame.kinds : frame.kinds[i] \notin {"Polygon", "MultiPolygon"}
        THEN Raised("ValueError", f1)
        ELSE Returned([f3 EXCEPT !.shown = Some(Snapshot(f3)), !.events = @ \o <<"show">>])

plot_shape(frame, a) ==
    LET f0  == NewFigure(a.figsize[1], a.figsize[2])
        f1  == [f0 EXCEPT !.layers = ShapePatches(frame.kinds),
                          !.events = @ \o [i \in 1..Len(ShapePatches(frame.kinds)) |-> "add_patch"]]
        box == [west |-> frame.bounds[1], south |-> frame.bounds[2],
                east |-> frame.bounds[3], north |-> frame.bounds[4]]
        margin_ns == RatMul(RatSub(box.north, box.south), a.margin)
        margin_ew == RatMul(RatSub(box.east, box.west), a.margin)
        f2  == [f1 EXCEPT !.ylim = Some(<<RatSub(box.south, margin_ns), RatAdd(box.north, margin_ns)>>),
                          !.xlim = Some(<<RatSub(box.west, margin_ew), RatAdd(box.east, margin_ew)>>),
                          !.aspect = "equal",
                          !.events = @ \o <<"set_ylim", "set_xlim", "set_aspect">>]
        f3  == IF a.axis_off
               THEN [f2 EXCEPT !.axis = "off", !.events = @ \o <<"axis_off">>]
               ELSE f2
    IN  IF \E i \in DOMAIN frame.kinds : frame.kinds[i] \notin {"Polygon", "MultiPolygon"}
        THEN Raised("ValueError", f1)
        ELSE Returned([f3 EXCEPT !.shown = Some(Snapshot(f3)), !.events = @ \o <<"show">>])

(***************************************************************************)
(* The folium web maps.  A map canvas holds its polylines in the order     *)
(* added, where it was centred when created, the bounds it was last asked  *)
(* to fit, and the number of calls of this module that drew on it.         *)
(***************************************************************************)
FoliumDefaults ==
    [folium |-> TRUE, map |-> None, popup_attribute |-> None, fit_bounds |-> TRUE,
     color |-> "#333333", width |-> 5, opacity |-> 1]

RouteFoliumDefaults == [FoliumDefaults EXCEPT !.color = "#cc0000"]

\* make_folium_polyline(edge, edge_color, edge_width, edge_opacity, popup_attribute)
make_folium_polyline(edge, edge_color, edge_width, edge_opacity, popup_attribute) ==
    [locations |-> edge.geometry,
     popup     |-> IF IsNone(popup_attribute) THEN None ELSE Some(edge[Val(popup_attribute)]),
     color     |-> edge_color,
     weight    |-> edge_width,
     opacity   |-> edge_opacity]

\* folium.Map(location=centroid): centred on the centroid of these rows' union
NewMap(rows) ==
    [layers |-> <<>>, location |-> Some([centroid_of |-> rows]), fitted |-> None, calls |-> 0]

\* an empty canvas made by the caller
BlankMap == [layers |-> <<>>, location |-> Some("caller"), fitted |-> None, calls |-> 0]

\* DrawOnMap with the rows' polylines put in the place of the canvas's layers
DrawOnMapAfresh(canvas, rows, a) ==
    LET tb == total_bounds(rows)
    IN  [canvas EXCEPT
           !.layers = [i \in DOMAIN rows |->
                          make_folium_polyline(rows[i], a.color, a.width, a.opacity,
                                               a.popup_attribute)],
           !.fitted = IF a.fit_bounds THEN Some(<<<<tb[2], tb[1]>>, <<tb[4], tb[3]>>>>) ELSE @,
           !.calls  = @ + 1]

\* the rows' polylines added to the canvas, and the canvas fitted: lines 539-549
DrawOnMap(canvas, rows, a) ==
    LET tb == total_bounds(rows)
    IN  [canvas EXCEPT
           !.layers = @ \o [i \in DOMAIN rows |->
                              make_folium_polyline(rows[i], a.color, a.width, a.opacity,
                                                   a.popup_attribute)],
           !.fitted = IF a.fit_bounds THEN Some(<<<<tb[2], tb[1]>>, <<tb[4], tb[3]>>>>) ELSE @,
           !.calls  = @ + 1]

plot_graph_folium(g, a) ==
    LET gdf_edges == graph_to_gdfs(g)
        canvas    == IF IsNone(a.map) THEN NewMap(gdf_edges) ELSE Val(a.map)
    IN  IF ~a.folium
        THEN Outcome("error", "ImportError", NoFigure,
                     IF IsNone(a.map) THEN NoMap ELSE Val(a.map), <<>>)
        ELSE Outcome("map", "", NoFigure, DrawOnMap(canvas, gdf_edges, a), <<>>)

\* gdf_edges[(gdf_edges['u']==u) & (gdf_edges['v']==v)].index: the rows u->v
RowsOf(rows, u, v) ==
    SelectSeq([i \in DOMAIN rows |-> i], LAMBDA i : rows[i].u = u /\ rows[i].v = v)

\* .index[0] of the rows of each route step: the first row u->v
RouteIndex(rows, route) ==
    [i \in 1..(Len(route) - 1) |-> RowsOf(rows, route[i], route[i + 1])[1]]

\* plot_route_folium passing over the route steps that have no row
plot_route_folium_skipping(g, route, a) ==
    LET gdf_edges == graph_to_gdfs(g)
        kept      == IF IsNone(a.map) THEN NoMap ELSE Val(a.map)
        found     == SelectSeq([i \in 1..(Len(route) - 1) |-> i],
                               LAMBDA i : RowsOf(gdf_edges, route[i], route[i + 1]) # <<>>)
    IN  IF ~a.folium
        THEN Outcome("error", "ImportError", NoFigure, kept, <<>>)
        ELSE LET gdf_route_edges ==
                     [k \in DOMAIN found |->
                         gdf_edges[RowsOf(gdf_edges, route[found[k]], route[found[k] + 1])[1]]]
                 canvas == IF IsNone(a.map) THEN NewMap(gdf_route_edges) ELSE Val(a.map)
             IN  Outcome("map", "", NoFigure, DrawOnMap(canvas, gdf_route_edges, a), <<>>)

plot_route_folium(g, route, a) ==
    LET gdf_edges == graph_to_gdfs(g)
        kept      == IF IsNone(a.map) THEN NoMap ELSE Val(a.map)
    IN  IF ~a.folium
        THEN Outcome("error", "ImportError", NoFigure, kept, <<>>)
        ELSE IF \E i \in 1..(Len(route) - 1) : RowsOf(gdf_edges, route[i], route[i + 1]) = <<>>
        THEN Outcome("error", "IndexError", NoFigure, kept, <<>>)
        ELSE LET index           == RouteIndex(gdf_edges, route)
                 gdf_route_edges == [i \in DOMAIN index |-> gdf_edges[index[i]]]
                 canvas          == IF IsNone(a.map) THEN NewMap(gdf_route_edges) ELSE Val(a.map)
             IN  Outcome("map", "", NoFigure, DrawOnMap(canvas, gdf_route_edges, a), <<>>)

(***************************************************************************)
(* plot_figure_ground(address, point, ...).  The graph at hand is the one  *)
(* graph_from_address or graph_from_point returns, projected; a.bbox_proj  *)
(* is what bbox_from_point(point, dist, project_utm=True) returns.         *)
(***************************************************************************)
DefaultStreetWidths ==
    [t \in {"footway", "steps", "pedestrian", "service", "path", "track", "motorway"} |->
        IF t = "motorway" THEN R(6) ELSE Rat(3, 2)]

FigureGroundDefaults ==
    [address |-> None, point |-> None, street_widths |-> None, default_width |-> R(4),
     fig_length |-> R(8), edge_color |-> "w", file_format |-> "png",
     show |-> FALSE, save |-> TRUE, close |-> TRUE, bbox_proj |-> None]

\* StreetType with the last element of a list for the first
StreetTypeLast(data) ==
    IF data.highway.list THEN data.highway.vals[Len(data.highway.vals)] ELSE data.highway.val

\* data['highway'][0] if isinstance(data['highway'], list) else data['highway']
StreetType(data) == IF data.highway.list THEN data.highway.vals[1] ELSE data.highway.val

\* the line width of one edge
StreetWidth(data, street_widths, default_width) ==
    IF StreetType(data) \in DOMAIN street_widths
    THEN street_widths[StreetType(data)]
    ELSE default_width

\* edge_linewidths: one width per edge, in edge order
EdgeLinewidths(g, street_widths, default_width) ==
    [i \in DOMAIN g.edges |-> StreetWidth(g.edges[i], street_widths, default_width)]

plot_figure_ground(g, a) ==
    LET street_widths == IF IsNone(a.street_widths) THEN DefaultStreetWidths
                         ELSE Val(a.street_widths)
        drawn == plot_graph(g, [PlotGraphDefaults EXCEPT
                     !.bbox = a.bbox_proj, !.fig_height = a.fig_length,
                     !.margin = R(0), !.edge_color = a.edge_color,
                     !.edge_linewidth = EdgeLinewidths(g, street_widths, a.default_width),
                     !.show = a.show, !.save = a.save, !.close = a.close,
                     !.file_format = a.file_format])
    IN  IF IsNone(a.address) /\ IsNone(a.point)
        THEN Raised("ValueError", NoFigure)
        ELSE IF drawn.kind = "error" THEN drawn
        ELSE Returned([drawn.fig EXCEPT !.aspect = "equal",
                                        !.events = @ \o <<"set_aspect", "draw">>])

(***************************************************************************)
(* The calls.  A behaviour starts with the data at hand and is one call of *)
(* a function of plot.py on it, the arguments drawn from the sets below;   *)
(* a web map a folium call returned may be passed to further folium calls. *)
(***************************************************************************)
\* bbox arguments: north, south, east, west, as Python numbers
BBoxes ==
    {None, Some(<<R(2), R(0), R(4), R(0)>>),
     \* east = west, and north = south
     Some(<<R(2), R(0), R(3), R(3)>>), Some(<<R(1), R(1), R(4), R(0)>>)}

FigWidths == {None, Some(R(4))}

Margins == {R(0), Rat(1, 50)}

\* routes over the nodes: at least two nodes
Routes == {<<0, 1>>, <<0, 1, 2>>}

\* (lat, lon) points
OriginPoints == {None, Some(<<R(5), R(7)>>)}

DestinationPoints == {None, Some(<<R(6), R(8)>>)}

NodeZorders == {1, 3}

\* start and stop in the colour scale
ColorRanges == {<<R(0), R(1)>>, <<Rat(1, 4), Rat(3, 4)>>}

\* GeoDataFrames of place boundaries: west, south, east, north of their union
ShapeFrames ==
    [kinds  : SeqsUpTo({"Polygon", "MultiPolygon", "Point"}, 2),
     bounds : {<<R(w), R(s), R(e), R(n)>> : w \in 0..1, s \in 0..1, e \in 2..3, n \in 2..3}]

\* street_widths arguments
StreetWidthArgs == {None, Some([t \in {"residential"} |-> R(2)])}

\* the square bbox_from_point returns: north, south, east, west
ProjectedBoxes == {Some(<<R(2), R(-1), R(2), R(-1)>>)}

NoGraph == MkGraph(<<>>)

NoFrame == [kinds |-> <<>>, bounds |-> <<>>]

Call(op, route, a) == [op |-> op, route |-> route, a |-> a]

NoCall == Call("", <<>>, <<>>)

Init ==
    /\ \/ G \in Graphs \cup StreetGraphs \cup AttrGraphs /\ gdf = NoFrame
       \/ G = NoGraph /\ gdf \in ShapeFrames
    /\ call = NoCall
    /\ result = Outcome("none", "", NoFigure, NoMap, <<>>)

PlotShape ==
    /\ call.op = ""
    /\ gdf \in ShapeFrames
    /\ \E margin \in Margins, axis_off \in BOOLEAN :
          LET a == [PlotShapeDefaults EXCEPT !.margin = margin, !.axis_off = axis_off]
          IN  /\ call' = Call("plot_shape", <<>>, a)
              /\ result' = plot_shape(gdf, a)
    /\ UNCHANGED <<G, gdf>>

GetEdgeColorsByAttr ==
    /\ call.op = ""
    /\ G \in AttrGraphs
    /\ \E num_bins \in 1..MaxBins, range \in ColorRanges :
          LET a == [attr |-> "length", num_bins |-> num_bins, cmap |-> "viridis",
                    start |-> range[1], stop |-> range[2]]
          IN  /\ call' = Call("get_edge_colors_by_attr", <<>>, a)
              /\ result' = get_edge_colors_by_attr(G, a)
    /\ UNCHANGED <<G, gdf>>

PlotGraph ==
    /\ call.op = ""
    /\ G \in Graphs
    /\ \E bbox \in BBoxes, fig_width \in FigWidths, margin \in Margins,
          use_geom \in BOOLEAN, show \in BOOLEAN, save \in BOOLEAN, close \in BOOLEAN :
          LET a == [PlotGraphDefaults EXCEPT
                      !.bbox = bbox, !.fig_width = fig_width, !.margin = margin,
                      !.use_geom = use_geom, !.show = show, !.save = save,
                      !.close = close]
          IN  /\ call' = Call("plot_graph", <<>>, a)
              /\ result' = plot_graph(G, a)
    /\ UNCHANGED <<G, gdf>>

PlotGraphRoute ==
    /\ call.op = ""
    /\ G \in Graphs
    /\ \E route \in Routes, use_geom \in BOOLEAN,
          origin_point \in OriginPoints, destination_point \in DestinationPoints,
          node_zorder \in NodeZorders,
          show \in BOOLEAN, save \in BOOLEAN, close \in BOOLEAN :
          LET a == [PlotGraphRouteDefaults EXCEPT
                      !.use_geom = use_geom, !.origin_point = origin_point,
                      !.destination_point = destination_point,
                      !.node_zorder = node_zorder, !.show = show, !.save = save,
                      !.close = close]
          IN  /\ call' = Call("plot_graph_route", route, a)
              /\ result' = plot_graph_route(G, route, a)
    /\ UNCHANGED <<G, gdf>>

\* the folium calls that can be made now: the first call of a behaviour, with
\* no canvas (folium installed or not) or with an empty canvas of the caller's,
\* or a further call on the canvas the last call returned
FoliumArgs(defaults) ==
    IF call.op = ""
    THEN {[defaults EXCEPT !.folium = f, !.map = m, !.fit_bounds = fb] :
             f \in BOOLEAN, m \in {None, Some(BlankMap)}, fb \in BOOLEAN}
         \ {[defaults EXCEPT !.folium = FALSE, !.map = Some(BlankMap), !.fit_bounds = fb] :
               fb \in BOOLEAN}
    ELSE IF result.kind = "map" /\ result.fmap.calls < MaxCalls
    THEN {[defaults EXCEPT !.map = Some(result.fmap)]}
    ELSE {}

PlotGraphFolium ==
    /\ G \in Graphs
    /\ \E a \in FoliumArgs(FoliumDefaults) :
          /\ call' = Call("plot_graph_folium", <<>>, a)
          /\ result' = plot_graph_folium(G, a)
    /\ UNCHANGED <<G, gdf>>

PlotRouteFolium ==
    /\ G \in Graphs
    /\ \E route \in Routes, a \in FoliumArgs(RouteFoliumDefaults) :
          /\ call' = Call("plot_route_folium", route, a)
          /\ result' = plot_route_folium(G, route, a)
    /\ UNCHANGED <<G, gdf>>

PlotFigureGround ==
    /\ call.op = ""
    /\ G \in StreetGraphs
    /\ \E address \in {None, Some("address")}, point \in {None, Some(<<R(5), R(7)>>)},
          street_widths \in StreetWidthArgs, bbox_proj \in ProjectedBoxes,
          file_format \in {"png", "svg"},
          show \in BOOLEAN, save \in BOOLEAN, close \in BOOLEAN :
          LET a == [FigureGroundDefaults EXCEPT
                      !.address = address, !.point = point,
                      !.street_widths = street_widths, !.bbox_proj = bbox_proj,
                      !.file_format = file_format, !.show = show, !.save = save,
                      !.close = close]
          IN  /\ call' = Call("plot_figure_ground", <<>>, a)
              /\ result' = plot_figure_ground(G, a)
    /\ UNCHANGED <<G, gdf>>

Next ==
    \/ PlotShape
    \/ GetEdgeColorsByAttr
    \/ PlotGraph
    \/ PlotGraphRoute
    \/ PlotGraphFolium
    \/ PlotRouteFolium
    \/ PlotFigureGround

Spec == Init /\ [][Next]_vars


(***************************************************************************)
(* The properties.                                                         *)
(***************************************************************************)
\* the layer of a kind ("edges", "nodes", "markers", "route") of a figure
LayerOf(fig, kind) ==
    fig.layers[CHOOSE i \in DOMAIN fig.layers : fig.layers[i].kind = kind]

HasLayer(fig, kind) == \E i \in DOMAIN fig.layers : fig.layers[i].kind = kind

\* the call was plot_graph_route and returned a figure
RouteDrawn == call.op = "plot_graph_route" /\ result.kind = "fig"

\* the polyline the geometry-or-segment rule gives for the data of an edge u->v
Polyline(u, v, data, use_geom) ==
    IF ~IsNone(data.geometry) /\ use_geom
    THEN Val(data.geometry)
    ELSE <<<<NodeXY[u].x, NodeXY[u].y>>, <<NodeXY[v].x, NodeXY[v].y>>>>

\* the position, among the parallel edges ps, of the first of minimum length
FirstShortest(ps) ==
    CHOOSE k \in DOMAIN ps :
        /\ \A j \in DOMAIN ps : ps[k].length <= ps[j].length
        /\ \A j \in 1..(k - 1) : ps[j].length > ps[k].length

\* C1: in plot_graph_route, the line of every route step (u, v) is drawn from
\* the data of a parallel edge u->v of minimum length, and of the edges of
\* minimum length from the first in the order of G.edge[u][v].
C1_RouteStepShortestFirst ==
    RouteDrawn =>
        \A i \in 1..(Len(call.route) - 1) :
            LET u  == call.route[i]
                v  == call.route[i + 1]
                ps == ParallelEdges(G, u, v)
            IN  LayerOf(result.fig, "route").lines[i]
                    = Polyline(u, v, ps[FirstShortest(ps)], call.a.use_geom)

\* C1 witness: a route step with two parallel edges of the same, minimum length
\* and different geometries, drawn with use_geom
C1_Witness ==
    /\ RouteDrawn
    /\ call.a.use_geom
    /\ \E i \in 1..(Len(call.route) - 1) :
          LET ps == ParallelEdges(G, call.route[i], call.route[i + 1])
          IN  /\ Len(ps) >= 2
              /\ ps[1].length = ps[2].length
              /\ ps[1].geometry # ps[2].geometry

\* the polylines the last folium call added to its canvas
AddedPolylines ==
    SubSeq(result.fmap.layers,
           Len(result.fmap.layers) - (Len(call.route) - 1) + 1,
           Len(result.fmap.layers))

\* C2: in plot_route_folium, the polyline of every route step (u, v) is that of
\* the parallel edge u->v of minimum length, the edge plot_graph_route draws.
C2_FoliumStepShortest ==
    (call.op = "plot_route_folium" /\ result.kind = "map") =>
        \A i \in 1..(Len(call.route) - 1) :
            LET u == call.route[i]
                v == call.route[i + 1]
            IN  AddedPolylines[i].locations
                    = Polyline(u, v, ShortestEdge(G, u, v), TRUE)

\* C3: in plot_graph_route, a marker whose point is passed is at that point
\* (x = point[1], y = point[0]) in orig_dest_point_color; with no point passed
\* the markers are at the first and the last node of the route in
\* orig_dest_node_color.
C3_MarkerAtEachPassedPoint ==
    RouteDrawn =>
        LET m    == LayerOf(result.fig, "markers")
            a    == call.a
            orig == call.route[1]
            dest == call.route[Len(call.route)]
        IN  /\ ~IsNone(a.origin_point) =>
                  /\ m.xs[1] = Val(a.origin_point)[2]
                  /\ m.ys[1] = Val(a.origin_point)[1]
                  /\ m.color = a.orig_dest_point_color
            /\ ~IsNone(a.destination_point) =>
                  /\ m.xs[2] = Val(a.destination_point)[2]
                  /\ m.ys[2] = Val(a.destination_point)[1]
                  /\ m.color = a.orig_dest_point_color
            /\ (IsNone(a.origin_point) /\ IsNone(a.destination_point)) =>
                  /\ m.xs = <<NodeXY[orig].x, NodeXY[dest].x>>
                  /\ m.ys = <<NodeXY[orig].y, NodeXY[dest].y>>
                  /\ m.color = a.orig_dest_node_color

\* the parallel edges u->v of minimum length
ShortestEdges(u, v) ==
    {e \in {ParallelEdges(G, u, v)[k] : k \in DOMAIN ParallelEdges(G, u, v)} :
        \A k \in DOMAIN ParallelEdges(G, u, v) : e.length <= ParallelEdges(G, u, v)[k].length}

\* C4: plot_graph resolves one polyline per edge, in edge order, and
\* plot_graph_route one per consecutive route pair, in route order; each is the
\* geometry's coordinates, in order, if the edge has a geometry and use_geom is
\* set, and else the segment from node u to node v.  The route 0, 1, 2 without
\* use_geom gives [(0,0),(0,1)], [(0,1),(1,1)].
C4_PolylinePerEdge ==
    /\ (call.op = "plot_graph" /\ result.kind = "fig") =>
          /\ Len(LayerOf(result.fig, "edges").lines) = Len(G.edges)
          /\ \A i \in DOMAIN G.edges :
                LayerOf(result.fig, "edges").lines[i]
                    = Polyline(G.edges[i].u, G.edges[i].v, G.edges[i], call.a.use_geom)
    /\ RouteDrawn =>
          /\ Len(LayerOf(result.fig, "route").lines) = Len(call.route) - 1
          /\ \A i \in 1..(Len(call.route) - 1) :
                \E e \in ShortestEdges(call.route[i], call.route[i + 1]) :
                    LayerOf(result.fig, "route").lines[i]
                        = Polyline(call.route[i], call.route[i + 1], e, call.a.use_geom)
          /\ (call.route = <<0, 1, 2>> /\ ~call.a.use_geom) =>
                LayerOf(result.fig, "route").lines
                    = << <<<<R(0), R(0)>>, <<R(0), R(1)>>>>,
                         <<<<R(0), R(1)>>, <<R(1), R(1)>>>> >>

\* C4 witness: a route of two steps drawn with use_geom, the first step along
\* an edge with a geometry and the second along one without
C4_Witness ==
    /\ RouteDrawn
    /\ call.route = <<0, 1, 2>>
    /\ call.a.use_geom
    /\ Len(LayerOf(result.fig, "route").lines[1]) = 3
    /\ Len(LayerOf(result.fig, "route").lines[2]) = 2

\* C5: in a route rendering the edges have z-order 2, the route line 3, the
\* markers 4 and the nodes the caller's node_zorder: the markers are above the
\* route line, the route line is above the edges, and above the nodes if
\* node_zorder < 3.
C5_RouteZorders ==
    RouteDrawn =>
        LET z(kind) == LayerOf(result.fig, kind).zorder
        IN  /\ \A kind \in {"edges", "nodes", "markers", "route"} : HasLayer(result.fig, kind)
            /\ z("edges") = 2
            /\ z("route") = 3
            /\ z("markers") = 4
            /\ z("nodes") = call.a.node_zorder
            /\ z("markers") > z("route")
            /\ z("route") > z("edges")
            /\ call.a.node_zorder < 3 => z("route") > z("nodes")

\* C5 witness: a route rendering with the nodes beneath the edges
C5_Witness ==
    /\ RouteDrawn
    /\ Len(result.fig.layers) = 4
    /\ call.a.node_zorder = 1
    /\ ~IsNone(call.a.origin_point)


\* the call was plot_graph and returned a figure
GraphDrawn == call.op = "plot_graph" /\ result.kind = "fig"

\* the enclosing rectangle of the edges' geometries, an edge without a
\* geometry counting as the segment between its nodes
EnclosingBox ==
    LET pts == UNION {{Polyline(G.edges[i].u, G.edges[i].v, G.edges[i], TRUE)[j] :
                          j \in DOMAIN Polyline(G.edges[i].u, G.edges[i].v, G.edges[i], TRUE)} :
                      i \in DOMAIN G.edges}
    IN  [north |-> RatMaxOf({p[2] : p \in pts}), south |-> RatMinOf({p[2] : p \in pts}),
         east  |-> RatMaxOf({p[1] : p \in pts}), west  |-> RatMinOf({p[1] : p \in pts})]

\* the box plot_graph is to frame: the bbox passed, or the enclosing rectangle
CallBox ==
    IF IsNone(call.a.bbox) THEN EnclosingBox
    ELSE [north |-> Val(call.a.bbox)[1], south |-> Val(call.a.bbox)[2],
          east  |-> Val(call.a.bbox)[3], west  |-> Val(call.a.bbox)[4]]

\* lo - m * (hi - lo), hi + m * (hi - lo)
Padded(lo, hi, m) ==
    <<RatSub(lo, RatMul(m, RatSub(hi, lo))), RatAdd(hi, RatMul(m, RatSub(hi, lo)))>>

\* C6: in plot_graph, for a box with north # south and east # west, the extent
\* framed is the bbox passed, or else the enclosing rectangle of the edges'
\* geometries; the figure's width is the fig_width passed, or else
\* fig_height / ((north - south) / (east - west)).
C6_ExtentAndWidth ==
    (GraphDrawn /\ CallBox.north # CallBox.south /\ CallBox.east # CallBox.west) =>
        /\ result.fig.ylim = Some(Padded(CallBox.south, CallBox.north, call.a.margin))
        /\ result.fig.xlim = Some(Padded(CallBox.west, CallBox.east, call.a.margin))
        /\ result.fig.figsize[2] = call.a.fig_height
        /\ result.fig.figsize[1] =
              IF ~IsNone(call.a.fig_width) THEN Val(call.a.fig_width)
              ELSE RatDiv(call.a.fig_height,
                          RatDiv(RatSub(CallBox.north, CallBox.south),
                                 RatSub(CallBox.east, CallBox.west)))

\* C6 witness: no bbox and no fig_width passed, and an edge whose geometry
\* reaches beyond the nodes
C6_Witness ==
    /\ GraphDrawn
    /\ IsNone(call.a.bbox)
    /\ IsNone(call.a.fig_width)
    /\ EnclosingBox.north = R(2)
    /\ result.fig.figsize[1] # call.a.fig_height

\* the box and the margin of a call that sets view limits
FramedBox ==
    IF call.op = "plot_shape"
    THEN [west |-> gdf.bounds[1], south |-> gdf.bounds[2],
          east |-> gdf.bounds[3], north |-> gdf.bounds[4]]
    ELSE CallBox

\* C7: the view limits plot_graph and plot_shape set are
\* (S - m(N-S), N + m(N-S)) and (W - m(E-W), E + m(E-W)): the same margin on
\* both sides of an axis, and with m = 0 the box itself.
C7_MarginLimits ==
    (call.op \in {"plot_graph", "plot_shape"} /\ result.kind = "fig") =>
        LET b    == FramedBox
            m    == call.a.margin
            ylim == Val(result.fig.ylim)
            xlim == Val(result.fig.xlim)
        IN  /\ ylim[1] = RatSub(b.south, RatMul(m, RatSub(b.north, b.south)))
            /\ ylim[2] = RatAdd(b.north, RatMul(m, RatSub(b.north, b.south)))
            /\ xlim[1] = RatSub(b.west, RatMul(m, RatSub(b.east, b.west)))
            /\ xlim[2] = RatAdd(b.east, RatMul(m, RatSub(b.east, b.west)))
            /\ RatSub(ylim[2], b.north) = RatSub(b.south, ylim[1])
            /\ RatSub(xlim[2], b.east) = RatSub(b.west, xlim[1])
            /\ m = R(0) => (ylim = <<b.south, b.north>> /\ xlim = <<b.west, b.east>>)

\* C7 witness: plot_graph with a margin on a box that is not square
C7_Witness ==
    /\ GraphDrawn
    /\ call.a.margin # R(0)
    /\ RatSub(CallBox.north, CallBox.south) # RatSub(CallBox.east, CallBox.west)
    /\ Val(result.fig.ylim)[1] # CallBox.south

\* the figure has its limits set and equal aspect in the image
EqualAspectImage(image) ==
    /\ ~IsNone(image.xlim)
    /\ ~IsNone(image.ylim)
    /\ image.aspect = "equal"

AutoAspectImage(image) ==
    /\ ~IsNone(image.xlim)
    /\ ~IsNone(image.ylim)
    /\ image.aspect = "auto"

WidthOf(data, street_widths, default_width) ==
    LET t == IF data.highway.list THEN Head(data.highway.vals) ELSE data.highway.val
    IN  IF t \in DOMAIN street_widths THEN street_widths[t] ELSE default_width

\* the street_widths plot_figure_ground works with
CallStreetWidths ==
    IF IsNone(call.a.street_widths) THEN DefaultStreetWidths ELSE Val(call.a.street_widths)

\* C9: in plot_figure_ground the width of an edge is street_widths[t] if its
\* street type t is a key of street_widths and default_width if not, t being
\* the 'highway' value, or its first element if it is a list; there is one
\* width per edge, the i-th for the i-th line plot_graph draws.
C9_WidthPerEdge ==
    (call.op = "plot_figure_ground" /\ result.kind = "fig") =>
        LET lc == LayerOf(result.fig, "edges")
        IN  /\ Len(lc.widths) = Len(G.edges)
            /\ Len(lc.lines) = Len(G.edges)
            /\ \A i \in DOMAIN G.edges :
                  /\ lc.widths[i] = WidthOf(G.edges[i], CallStreetWidths, call.a.default_width)
                  /\ lc.lines[i] = Polyline(G.edges[i].u, G.edges[i].v, G.edges[i], TRUE)

\* C9 witness: a graph with a street whose type is a list and a street whose
\* type has no width of its own
C9_Witness ==
    /\ call.op = "plot_figure_ground"
    /\ result.kind = "fig"
    /\ \E i, j \in DOMAIN G.edges :
          /\ G.edges[i].highway.list
          /\ ~G.edges[j].highway.list
          /\ G.edges[j].highway.val \notin DOMAIN CallStreetWidths
          /\ LayerOf(result.fig, "edges").widths[i] # LayerOf(result.fig, "edges").widths[j]

\* C10: get_edge_colors_by_attr returns, for any values and any number k >= 1
\* of bins, one colour per edge, in edge order: every edge has one bin in
\* 0..k-1, the bins do not decrease as the attribute grows, and the colour of
\* bin i is the i-th of k evenly spaced over [start, stop].
C10_ColorPerEdge ==
    call.op = "get_edge_colors_by_attr" =>
        /\ result.kind = "colors"
        /\ Len(result.colors) = Len(G.edges)
        /\ \E bin \in [DOMAIN G.edges -> 0..(call.a.num_bins - 1)] :
              /\ \A i \in DOMAIN G.edges :
                    result.colors[i]
                        = CmapColor(call.a.cmap,
                                    Linspace(call.a.start, call.a.stop, call.a.num_bins, bin[i]))
              /\ \A i, j \in DOMAIN G.edges :
                    G.edges[i].length <= G.edges[j].length => bin[i] <= bin[j]

\* the call was given a route with a step (u, v) for which G has no edge u->v
RouteStepMissing ==
    /\ call.op \in {"plot_graph_route", "plot_route_folium"}
    /\ \E i \in 1..(Len(call.route) - 1) :
          \A k \in DOMAIN G.edges :
              ~(G.edges[k].u = call.route[i] /\ G.edges[k].v = call.route[i + 1])

\* C11: a route with a consecutive pair (u, v) that has no edge u->v makes
\* plot_graph_route and plot_route_folium fail: no figure or map is returned.
\* Where the call reaches the lookup (the background graph was drawn; folium
\* is installed) the error is the lookup's, KeyError or IndexError.  In
\* plot_graph_route the figure has no route layer and was not saved, shown or
\* closed; in plot_route_folium a map that was passed has the layers and the
\* fitted bounds it had.
C11_MissingEdgeFails ==
    RouteStepMissing =>
        /\ result.kind = "error"
        /\ call.op = "plot_graph_route" =>
              /\ HasLayer(result.fig, "edges") => result.err = "KeyError"
              /\ ~HasLayer(result.fig, "route")
              /\ IsNone(result.fig.saved)
              /\ IsNone(result.fig.shown)
              /\ ~result.fig.closed
              /\ \A i \in DOMAIN result.fig.events :
                    result.fig.events[i] \notin {"savefig", "show", "close"}
        /\ call.op = "plot_route_folium" =>
              /\ call.a.folium => result.err = "IndexError"
              /\ ~IsNone(call.a.map) => result.fmap = Val(call.a.map)
              /\ IsNone(call.a.map) => result.fmap = NoMap

\* C11 witness: plot_route_folium failed on a map that has polylines of an
\* earlier call, asked to fit the bounds
C11_Witness ==
    /\ RouteStepMissing
    /\ call.op = "plot_route_folium"
    /\ result.err = "IndexError"
    /\ ~IsNone(call.a.map)
    /\ Val(call.a.map).layers # <<>>
    /\ call.a.fit_bounds

\* a folium call returned a map
MapDrawn == call.op \in {"plot_graph_folium", "plot_route_folium"} /\ result.kind = "map"

\* the layers of the canvas the call was given: none if it was given none
GivenLayers == IF IsNone(call.a.map) THEN <<>> ELSE Val(call.a.map).layers

\* the layers the call left on the canvas after those it was given
NewLayers == SubSeq(result.fmap.layers, Len(GivenLayers) + 1, Len(result.fmap.layers))

\* C12: a folium call that returns leaves on the canvas the layers the canvas
\* had when it was passed, in their order, followed by the call's polylines:
\* one per graph edge, in edge order, for plot_graph_folium, one per
\* consecutive pair of the route, in route order, for plot_route_folium.  The
\* canvas returned is the one passed (the place it was created at is kept and
\* it has seen one call more); it is a new one, with only the call's
\* polylines, if none was passed.  Holding after each call, this holds along
\* every sequence of calls that pass on the canvas returned.
C12_CanvasLayersAppended ==
    MapDrawn =>
        /\ Len(result.fmap.layers) >= Len(GivenLayers)
        /\ SubSeq(result.fmap.layers, 1, Len(GivenLayers)) = GivenLayers
        /\ call.op = "plot_graph_folium" =>
              /\ Len(NewLayers) = Len(G.edges)
              /\ \A i \in DOMAIN G.edges :
                    NewLayers[i].locations
                        = Polyline(G.edges[i].u, G.edges[i].v, G.edges[i], TRUE)
        /\ call.op = "plot_route_folium" =>
              /\ Len(NewLayers) = Len(call.route) - 1
              /\ \A i \in 1..(Len(call.route) - 1) :
                    \E k \in DOMAIN G.edges :
                        /\ G.edges[k].u = call.route[i]
                        /\ G.edges[k].v = call.route[i + 1]
                        /\ NewLayers[i].locations
                               = Polyline(call.route[i], call.route[i + 1], G.edges[k], TRUE)
        /\ ~IsNone(call.a.map) =>
              /\ result.fmap.location = Val(call.a.map).location
              /\ result.fmap.calls = Val(call.a.map).calls + 1
        /\ IsNone(call.a.map) =>
              /\ result.fmap.calls = 1
              /\ result.fmap.location # None

\* C12 witness: a route drawn on a canvas that holds the polylines of an
\* earlier call
C12_Witness ==
    /\ MapDrawn
    /\ call.op = "plot_route_folium"
    /\ ~IsNone(call.a.map)
    /\ GivenLayers # <<>>
    /\ NewLayers # <<>>
    /\ result.fmap.calls = 2

\* the calls save_and_show makes on the figure and on pyplot, in order, for
\* a file format other than svg
SaveShowCalls(save, show, close) ==
    (IF save THEN <<"savefig">> ELSE <<>>)
        \o (IF show THEN <<"show">> ELSE IF close THEN <<"close">> ELSE <<>>)

\* C13: in plot_graph_route, for every show, save and close, the calls made on
\* the figure end with those of one save_and_show (savefig if save, then show
\* if show, or close if close and not show), the call before them adds the
\* route line, and no savefig, show or close is made earlier (the inner
\* plot_graph saves, shows and closes nothing).  So what is saved and what is
\* shown has the edges, the nodes, the markers and the route line, and the
\* figure is closed exactly if show is false and close is true.
C13_RouteSaveShowLast ==
    RouteDrawn =>
        LET f    == result.fig
            tail == SaveShowCalls(call.a.save, call.a.show, call.a.close)
            n    == Len(f.events) - Len(tail)
        IN  /\ n >= 1
            /\ SubSeq(f.events, n + 1, Len(f.events)) = tail
            /\ f.events[n] = "add_collection"
            /\ \A i \in 1..n : f.events[i] \notin {"savefig", "show", "close"}
            /\ [i \in DOMAIN f.layers |-> f.layers[i].kind]
                   = <<"edges", "nodes", "markers", "route">>
            /\ IsNone(f.saved) <=> ~call.a.save
            /\ call.a.save => Val(f.saved).image.layers = f.layers
            /\ IsNone(f.shown) <=> ~call.a.show
            /\ call.a.show => Val(f.shown).layers = f.layers
            /\ f.closed <=> (~call.a.show /\ call.a.close)

\* C13 witness: plot_graph_route saved and showed its figure, asked to close
C13_Witness ==
    /\ RouteDrawn
    /\ call.a.save
    /\ call.a.show
    /\ call.a.close
    /\ ~IsNone(result.fig.saved)
    /\ ~result.fig.closed

\* C14: in plot_figure_ground, for every show, save and close, the figure is
\* finished before it is saved, shown or closed: what was saved and what was
\* shown is what the figure returned looks like, equal aspect included, and
\* no call is made on the figure or the axis after savefig, show or close.
C14_FigureGroundBuiltBeforeSave ==
    (call.op = "plot_figure_ground" /\ result.kind = "fig") =>
        LET f == result.fig
        IN  /\ ~IsNone(f.saved) => Val(f.saved).image = Snapshot(f)
            /\ ~IsNone(f.shown) => Val(f.shown) = Snapshot(f)
            /\ \A i, j \in DOMAIN f.events :
                  (i < j /\ f.events[i] \in {"savefig", "show", "close"})
                      => f.events[j] \in {"savefig", "show", "close"}

\* the box plot_graph is to frame has no height or no width, or is inverted
BoxDegenerate ==
    \/ ~RatLess(CallBox.south, CallBox.north)
    \/ ~RatLess(CallBox.west, CallBox.east)

\* C15: plot_graph returns a figure also for a box with north <= south or
\* east <= west, passed as bbox or derived from the edges, with or without a
\* fig_width: such a box does not make the call fail.
C15_DegenerateBoxRenders ==
    (call.op = "plot_graph" /\ BoxDegenerate) => result.kind = "fig"

====
